---- MODULE Spec2Model ----
(***************************************************************************)
(* Model of platform/net/ubuntu_net_manager.go (bosh-agent, vendored).     *)
(*                                                                         *)
(* A Go string is modelled as a sequence of atoms (TLA+ strings): the      *)
(* empty string is <<>>, concatenation is \o.  The literal text of a       *)
(* template is cut into atoms at its actions ({{ ... }}), so a rendered    *)
(* file is the sequence of literal chunks and substituted values, and      *)
(* ConvergeFileContents compares two such sequences atom by atom.          *)
(***************************************************************************)
EXTENDS Integers, Sequences, FiniteSets, TLC

(***************************************************************************)
(* Bounds                                                                  *)
(***************************************************************************)
\* The number of apply calls made.
MaxCalls == 2

\* The longest DNS server list the renderers are applied to.
MaxDNS == 2

\* How many apply calls are made where the caller's receive is a step of
\* its own.
MaxLiveCalls == 1

(***************************************************************************)
(* Strings                                                                 *)
(***************************************************************************)
RECURSIVE Join(_, _)
Join(elems, sep) ==
    IF Len(elems) = 0 THEN <<>>
    ELSE IF Len(elems) = 1 THEN elems[1]
    ELSE elems[1] \o sep \o Join(Tail(elems), sep)

RECURSIVE TrimLeft(_, _)
TrimLeft(s, cutset) ==
    IF Len(s) > 0 /\ s[1] \in cutset THEN TrimLeft(Tail(s), cutset) ELSE s

RECURSIVE TrimRight(_, _)
TrimRight(s, cutset) ==
    IF Len(s) > 0 /\ s[Len(s)] \in cutset
    THEN TrimRight(SubSeq(s, 1, Len(s) - 1), cutset)
    ELSE s

\* A slip: the address is used as read, with its newline.
TrimNothing(s, cutset) == s

Trim(s, cutset) == TrimRight(TrimLeft(s, cutset), cutset)

\* filepath.Base: the last element of a path (a path is its directory atom
\* followed by the entry's name atom).
Base(filePath) == <<filePath[Len(filePath)]>>

(***************************************************************************)
(* Inputs: the desired networks and the live /sys/class/net enumeration    *)
(***************************************************************************)
NetA ==
    [IP |-> <<"1", "0", "1">>, Netmask |-> <<"1", "1", "0">>,
     Gateway |-> <<"gwA">>, Mac |-> <<"m0">>,
     DNS |-> << <<"d1">>, <<"d2">> >>, Default |-> {"dns", "gateway"}]

NetB ==
    [IP |-> <<"0", "1", "1">>, Netmask |-> <<"1", "0", "0">>,
     Gateway |-> <<>>, Mac |-> <<"mX">>,
     DNS |-> <<>>, Default |-> {}]

NetBad ==
    [IP |-> <<"1", "0", "1">>, Netmask |-> <<"1", "x", "0">>,
     Gateway |-> <<"gwC">>, Mac |-> <<"m1">>,
     DNS |-> <<>>, Default |-> {}]

EmptyNetwork ==
    [IP |-> <<>>, Netmask |-> <<>>, Gateway |-> <<>>, Mac |-> <<>>,
     DNS |-> <<>>, Default |-> {}]

NetworkChoices ==
    { <<>>, <<NetB>>, <<NetA, NetB>>, <<NetB, NetBad>>, <<NetBad, NetA>> }

SysEntry(name, device, address) ==
    [path |-> <<"/sys/class/net/", name>>, device |-> device, address |-> address]

SysTwoNics ==
    << SysEntry("eth0", TRUE, <<"m0", "\n">>),
       SysEntry("eth1", TRUE, <<"m1", "\n">>),
       SysEntry("lo", FALSE, <<"00", "\n">>) >>

SysOneNic ==
    << SysEntry("br0", FALSE, <<"m0", "\n">>),
       SysEntry("eth1", TRUE, <<"m0", "\n">>) >>

SysChoices == { SysTwoNics, SysOneNic }

\* The completion channel the caller passes: none, or one without a buffer.
ErrChChoices == { "nil", "unbuffered" }

\* A slip: the path of another file.
InterfacesFileWrongPath == "/etc/resolv.conf"

InterfacesFile == "/etc/network/interfaces"
DhclientConfigFile == "/etc/dhcp/dhclient.conf"
ResolvConfFile == "/etc/resolv.conf"

(***************************************************************************)
(* Collaborators outside this file                                         *)
(***************************************************************************)
\* boshsettings.Networks.DefaultNetworkFor: the network tagged for the
\* purpose, the zero Network when none is.
RECURSIVE DefaultNetworkFor(_, _)
DefaultNetworkFor(networks, purpose) ==
    IF Len(networks) = 0 THEN EmptyNetwork
    ELSE IF purpose \in networks[1].Default THEN networks[1]
    ELSE DefaultNetworkFor(Tail(networks), purpose)

IsBits(s) == Len(s) > 0 /\ \A i \in 1..Len(s) : s[i] \in {"0", "1"}

\* boshsys.CalculateNetworkAndBroadcast: network = ip AND mask,
\* broadcast = ip OR NOT mask; an error on a malformed address/mask pair.
CalculateNetworkAndBroadcast(ip, netmask) ==
    IF ~(IsBits(ip) /\ IsBits(netmask) /\ Len(ip) = Len(netmask))
    THEN [network |-> <<>>, broadcast |-> <<>>, err |-> "Invalid ip or netmask"]
    ELSE [network |-> [i \in 1..Len(ip) |->
                          IF ip[i] = "1" /\ netmask[i] = "1" THEN "1" ELSE "0"],
          broadcast |-> [i \in 1..Len(ip) |->
                          IF ip[i] = "1" \/ netmask[i] = "0" THEN "1" ELSE "0"],
          err |-> "nil"]

\* boshsys.FileSystem.ConvergeFileContents: writes only when the content
\* differs from what the file holds, and reports whether it wrote.
ConvergeFileContents(files, path, content, ioFails) ==
    IF ioFails
    THEN [fs |-> files, written |-> FALSE, err |-> "IOError"]
    ELSE IF path \in DOMAIN files /\ files[path] = content
    THEN [fs |-> files, written |-> FALSE, err |-> "nil"]
    ELSE [fs |-> [p \in DOMAIN files \cup {path} |->
                     IF p = path THEN content ELSE files[p]],
          written |-> TRUE, err |-> "nil"]

\* toInterfaceAddresses: one address per resolved network.
toInterfaceAddresses(networks) ==
    [i \in 1..Len(networks) |->
        [Interface |-> networks[i].Interface, IP |-> networks[i].IP]]

(***************************************************************************)
(* Templates                                                               *)
(***************************************************************************)
ubuntuDHCPConfigTemplate(dot) ==
    <<"# Generated by bosh-agent\n\noption rfc3442-classless-static-routes ...; send host-name ...; request ..., ntp-servers;\n">>
    \o (IF dot # <<>>
        THEN <<"\nprepend domain-name-servers ">> \o dot \o <<";">>
        ELSE <<>>)
    \o <<"\n">>

RECURSIVE RangeDNSServers(_)
RangeDNSServers(servers) ==
    IF Len(servers) = 0 THEN <<>>
    ELSE <<" ">> \o servers[1] \o RangeDNSServers(Tail(servers))

RECURSIVE RangeNetworks(_)
RangeNetworks(networks) ==
    IF Len(networks) = 0 THEN <<>>
    ELSE <<"\nauto ">> \o networks[1].Interface
         \o <<"\niface ">> \o networks[1].Interface
         \o <<" inet static\n    address ">> \o networks[1].IP
         \o <<"\n    network ">> \o networks[1].NetworkIP
         \o <<"\n    netmask ">> \o networks[1].Netmask
         \o <<"\n    broadcast ">> \o networks[1].Broadcast
         \o <<"\n">>
         \o (IF networks[1].HasDefaultGateway
             THEN <<"    gateway ">> \o networks[1].Gateway
             ELSE <<>>)
         \o RangeNetworks(Tail(networks))

\* A slip: the static file keeps a DHCP stanza for eth0.
networkInterfacesTemplateWithDhcp(arg) ==
    <<"# Generated by bosh-agent\nauto lo\niface lo inet loopback\n">>
    \o <<"\nauto ">> \o <<"eth0">> \o <<"\niface ">> \o <<"eth0">>
    \o <<" inet dhcp\n">>
    \o RangeNetworks(arg.Networks)
    \o <<"\n">>
    \o (IF arg.HasDNSNameServers
        THEN <<"dns-nameservers">> \o RangeDNSServers(arg.DNSServers)
        ELSE <<>>)

networkInterfacesTemplate(arg) ==
    <<"# Generated by bosh-agent\nauto lo\niface lo inet loopback\n">>
    \o RangeNetworks(arg.Networks)
    \o <<"\n">>
    \o (IF arg.HasDNSNameServers
        THEN <<"dns-nameservers">> \o RangeDNSServers(arg.DNSServers)
        ELSE <<>>)

RECURSIVE RangeInterfaces(_)
RangeInterfaces(interfaces) ==
    IF Len(interfaces) = 0 THEN <<>>
    ELSE <<"\nauto ">> \o interfaces[1]
         \o <<"\niface ">> \o interfaces[1] \o <<" inet dhcp\n">>
         \o RangeInterfaces(Tail(interfaces))

ubuntuDhcpNetworkInterfacesTemplate(interfaces) ==
    <<"# Generated by bosh-agent\nauto lo\niface lo inet loopback\n">>
    \o RangeInterfaces(interfaces)

\* A slip: a server already listed is not listed again.
RECURSIVE RangeNameserversOnce(_)
RangeNameserversOnce(servers) ==
    IF Len(servers) = 0 THEN <<>>
    ELSE <<"nameserver ">> \o servers[1] \o <<"\n">>
         \o RangeNameserversOnce(
                SelectSeq(Tail(servers), LAMBDA s : s # servers[1]))

RECURSIVE RangeNameservers(_)
RangeNameservers(servers) ==
    IF Len(servers) = 0 THEN <<>>
    ELSE <<"nameserver ">> \o servers[1] \o <<"\n">>
         \o RangeNameservers(Tail(servers))

ubuntuResolvConfTemplate(arg) ==
    <<"# Generated by bosh-agent\n">> \o RangeNameservers(arg.DNSServers)

(***************************************************************************)
(* Interface inventory                                                     *)
(***************************************************************************)
\* What the file system does during one step: at most the listed failures.
\* glob: Glob fails; readAt: index of the entry whose address read fails
\* (0 for none); render: template execution fails; io: the converge-write
\* fails.
NoFailure == [glob |-> FALSE, readAt |-> 0, render |-> FALSE, io |-> FALSE]

\* Nothing fails, or one of the listed calls does (reads: the entries whose
\* address the step reads).
OneFailure(kinds, reads) ==
    {NoFailure}
    \cup { [NoFailure EXCEPT ![k] = TRUE] : k \in kinds }
    \cup { [NoFailure EXCEPT !.readAt = i] : i \in reads }

MapPut(m, k, v) == [x \in DOMAIN m \cup {k} |-> IF x = k THEN v ELSE m[x]]

\* A Go map lookup: the zero value (empty string) for a missing key.
MapGet(m, k) == IF k \in DOMAIN m THEN m[k] ELSE <<>>

RECURSIVE ReadAddresses(_, _, _, _)
ReadAddresses(filePaths, i, readAt, addresses) ==
    IF i > Len(filePaths) THEN [addresses |-> addresses, err |-> "nil"]
    ELSE IF i = readAt
    THEN [addresses |-> addresses, err |-> "Reading mac address from file"]
    ELSE ReadAddresses(filePaths, i + 1, readAt,
            MapPut(addresses, Trim(filePaths[i].address, {"\n"}),
                   Base(filePaths[i].path)))

detectMacAddresses(sys, env) ==
    IF env.glob
    THEN [addresses |-> <<>>, err |-> "Getting file list from /sys/class/net"]
    ELSE ReadAddresses(sys, 1, env.readAt, <<>>)

\* A slip: the device descriptor is not looked for.
RECURSIVE KeepAll(_)
KeepAll(filePaths) ==
    IF Len(filePaths) = 0 THEN <<>>
    ELSE <<Base(filePaths[1].path)>> \o KeepAll(Tail(filePaths))

RECURSIVE KeepDevices(_)
KeepDevices(filePaths) ==
    IF Len(filePaths) = 0 THEN <<>>
    ELSE (IF filePaths[1].device THEN <<Base(filePaths[1].path)>> ELSE <<>>)
         \o KeepDevices(Tail(filePaths))

detectNetworkInterfaces(sys, env) ==
    IF env.glob
    THEN [interfaces |-> <<>>, err |-> "Getting file list from /sys/class/net"]
    ELSE [interfaces |-> KeepDevices(sys), err |-> "nil"]

(***************************************************************************)
(* Events of the call in progress                                          *)
(***************************************************************************)
Event(ev, what, changed, ok) ==
    [ev |-> ev, what |-> what, changed |-> changed, ok |-> ok]

\* A detection, computation or rendering step and whether it succeeded.
StepEvent(ev, what, err) == Event(ev, what, FALSE, err = "nil")

\* A detection, with what it returned next to its error.
DetectEvent(returned, err) == Event("detect", returned, FALSE, err = "nil")

ConvergeEvent(path, r) == Event("converge", path, r.written, r.err = "nil")

(***************************************************************************)
(* Writers                                                                 *)
(***************************************************************************)
RenderErr(env) == IF env.render THEN "Generating config from template" ELSE "nil"

\* A slip: the rendered file is held back and never reaches the file system.
writeDhcpNetworkInterfacesHeldBack(files, sys, env) ==
    LET d == detectNetworkInterfaces(sys, env)
        content == ubuntuDhcpNetworkInterfacesTemplate(d.interfaces)
        w == ConvergeFileContents(files, InterfacesFile, content, env.io)
        e1 == <<DetectEvent(d.interfaces, d.err)>>
        e2 == e1 \o <<StepEvent("render", InterfacesFile, RenderErr(env))>>
        e3 == e2 \o <<ConvergeEvent(InterfacesFile, w)>>
    IN  IF d.err # "nil"
        THEN [fs |-> files, events |-> e1, err |-> "Detecting network interfaces"]
        ELSE IF env.render
        THEN [fs |-> files, events |-> e2, err |-> RenderErr(env)]
        ELSE IF w.err # "nil"
        THEN [fs |-> files, events |-> e3,
              err |-> "Writing to /etc/network/interfaces"]
        ELSE [fs |-> files, events |-> e3, err |-> "nil"]

writeDhcpNetworkInterfaces(files, sys, env) ==
    LET d == detectNetworkInterfaces(sys, env)
        content == ubuntuDhcpNetworkInterfacesTemplate(d.interfaces)
        w == ConvergeFileContents(files, InterfacesFile, content, env.io)
        e1 == <<DetectEvent(d.interfaces, d.err)>>
        e2 == e1 \o <<StepEvent("render", InterfacesFile, RenderErr(env))>>
        e3 == e2 \o <<ConvergeEvent(InterfacesFile, w)>>
    IN  IF d.err # "nil"
        THEN [fs |-> files, events |-> e1, err |-> "Detecting network interfaces"]
        ELSE IF env.render
        THEN [fs |-> files, events |-> e2, err |-> RenderErr(env)]
        ELSE IF w.err # "nil"
        THEN [fs |-> w.fs, events |-> e3,
              err |-> "Writing to /etc/network/interfaces"]
        ELSE [fs |-> w.fs, events |-> e3, err |-> "nil"]

customNetwork(aNet, interface, network, broadcast, hasDefaultGateway) ==
    [IP |-> aNet.IP, Netmask |-> aNet.Netmask, Gateway |-> aNet.Gateway,
     Mac |-> aNet.Mac, DNS |-> aNet.DNS, Default |-> aNet.Default,
     Interface |-> interface, NetworkIP |-> network, Broadcast |-> broadcast,
     HasDefaultGateway |-> hasDefaultGateway]

\* The gateway-presence flag the code gives a resolved network.
HasDefaultGateway(aNet) == TRUE

NewNet(aNet, macAddresses, c) ==
    customNetwork(aNet, MapGet(macAddresses, aNet.Mac), c.network, c.broadcast,
                  HasDefaultGateway(aNet))

\* A slip: a network whose computation fails is passed over.
RECURSIVE ResolveNetworksSkipping(_, _, _)
ResolveNetworksSkipping(networks, macAddresses, modifiedNetworks) ==
    IF Len(networks) = 0
    THEN [modifiedNetworks |-> modifiedNetworks, err |-> "nil"]
    ELSE LET c == CalculateNetworkAndBroadcast(networks[1].IP, networks[1].Netmask)
         IN  IF c.err # "nil"
             THEN ResolveNetworksSkipping(Tail(networks), macAddresses,
                                          modifiedNetworks)
             ELSE ResolveNetworksSkipping(Tail(networks), macAddresses,
                     Append(modifiedNetworks, NewNet(networks[1], macAddresses, c)))

\* The loop over the networks: the networks resolved so far and the error
\* that stopped it.
RECURSIVE ResolveNetworks(_, _, _)
ResolveNetworks(networks, macAddresses, modifiedNetworks) ==
    IF Len(networks) = 0
    THEN [modifiedNetworks |-> modifiedNetworks, err |-> "nil"]
    ELSE LET c == CalculateNetworkAndBroadcast(networks[1].IP, networks[1].Netmask)
         IN  IF c.err # "nil"
             THEN [modifiedNetworks |-> modifiedNetworks,
                   err |-> "Calculating network and broadcast"]
             ELSE ResolveNetworks(Tail(networks), macAddresses,
                     Append(modifiedNetworks, NewNet(networks[1], macAddresses, c)))

\* The flag the code passes to the template with the DNS network's servers.
HasDNSNameServers(dnsNetwork) == TRUE

networkInterfaceConfigArg(modifiedNetworks, dnsNetwork) ==
    [Networks |-> modifiedNetworks,
     HasDNSNameServers |-> HasDNSNameServers(dnsNetwork),
     DNSServers |-> dnsNetwork.DNS]

writeNetworkInterfaces(files, networks, sys, env) ==
    LET m == detectMacAddresses(sys, env)
        r == ResolveNetworks(networks, m.addresses, <<>>)
        arg == networkInterfaceConfigArg(r.modifiedNetworks,
                                         DefaultNetworkFor(networks, "dns"))
        content == networkInterfacesTemplate(arg)
        w == ConvergeFileContents(files, InterfacesFile, content, env.io)
        e1 == <<DetectEvent(m.addresses, m.err)>>
        e2 == e1 \o <<StepEvent("calculate", "networks", r.err)>>
        e3 == e2 \o <<StepEvent("render", InterfacesFile, RenderErr(env))>>
        e4 == e3 \o <<ConvergeEvent(InterfacesFile, w)>>
    IN  IF m.err # "nil"
        THEN [modifiedNetworks |-> <<>>, written |-> FALSE, fs |-> files,
              events |-> e1, err |-> "Detecting mac addresses"]
        ELSE IF r.err # "nil"
        THEN [modifiedNetworks |-> r.modifiedNetworks, written |-> FALSE,
              fs |-> files, events |-> e2, err |-> r.err]
        ELSE IF env.render
        THEN [modifiedNetworks |-> r.modifiedNetworks, written |-> FALSE,
              fs |-> files, events |-> e3, err |-> RenderErr(env)]
        ELSE IF w.err # "nil"
        THEN [modifiedNetworks |-> r.modifiedNetworks, written |-> FALSE,
              fs |-> w.fs, events |-> e4,
              err |-> "Writing to /etc/network/interfaces"]
        ELSE [modifiedNetworks |-> r.modifiedNetworks, written |-> w.written,
              fs |-> w.fs, events |-> e4, err |-> "nil"]

dnsConfigArg(servers) == [DNSServers |-> servers]

\* Not called by either entry point.
writeResolvConf(files, networks, env) ==
    LET dnsNetwork == DefaultNetworkFor(networks, "dns")
        content == ubuntuResolvConfTemplate(dnsConfigArg(dnsNetwork.DNS))
    IN  IF env.render
        THEN [fs |-> files, err |-> RenderErr(env)]
        ELSE IF env.io
        THEN [fs |-> files, err |-> "Writing to /etc/resolv.conf"]
        ELSE [fs |-> [p \in DOMAIN files \cup {ResolvConfFile} |->
                         IF p = ResolvConfFile THEN content ELSE files[p]],
              err |-> "nil"]

\* A slip: a converge-write without error counts as a write.
writeDhclientConfAlwaysWritten(files, networks, env) ==
    LET dnsNetwork == DefaultNetworkFor(networks, "dns")
        dnsServersList == Join(dnsNetwork.DNS, <<", ">>)
        content == ubuntuDHCPConfigTemplate(dnsServersList)
        w == ConvergeFileContents(files, DhclientConfigFile, content, env.io)
        e1 == <<StepEvent("render", DhclientConfigFile, RenderErr(env))>>
        e2 == e1 \o <<ConvergeEvent(DhclientConfigFile, w)>>
    IN  IF env.render
        THEN [fs |-> files, written |-> FALSE, events |-> e1,
              err |-> RenderErr(env)]
        ELSE IF w.err # "nil"
        THEN [fs |-> w.fs, written |-> FALSE, events |-> e2,
              err |-> "Writing to /etc/dhcp/dhclient.conf"]
        ELSE [fs |-> w.fs, written |-> TRUE, events |-> e2, err |-> "nil"]

\* Lines 55-71 of SetupDhcp: render the directive file and converge it.
writeDhclientConf(files, networks, env) ==
    LET dnsNetwork == DefaultNetworkFor(networks, "dns")
        dnsServersList == Join(dnsNetwork.DNS, <<", ">>)
        content == ubuntuDHCPConfigTemplate(dnsServersList)
        w == ConvergeFileContents(files, DhclientConfigFile, content, env.io)
        e1 == <<StepEvent("render", DhclientConfigFile, RenderErr(env))>>
        e2 == e1 \o <<ConvergeEvent(DhclientConfigFile, w)>>
    IN  IF env.render
        THEN [fs |-> files, written |-> FALSE, events |-> e1,
              err |-> RenderErr(env)]
        ELSE IF w.err # "nil"
        THEN [fs |-> w.fs, written |-> FALSE, events |-> e2,
              err |-> "Writing to /etc/dhcp/dhclient.conf"]
        ELSE [fs |-> w.fs, written |-> w.written, events |-> e2, err |-> "nil"]

(***************************************************************************)
(* State                                                                   *)
(***************************************************************************)
VARIABLES
    fs,       \* path -> content, for the files that exist
    call,     \* the apply call in progress (or the last one made)
    trace,    \* what the call in progress did, in order
    tasks     \* tasks[c]: the background broadcast task of call c

vars == <<fs, call, trace, tasks>>

\* repeat: the call has the entry point, the networks and the enumeration of
\* the call before it, and that call succeeded.
NoCall ==
    [id |-> 0, entry |-> "none", networks |-> <<>>, errCh |-> "nil",
     sys |-> <<>>, repeat |-> FALSE, pc |-> "idle", err |-> "nil",
     modifiedNetworks |-> <<>>, written |-> FALSE, idx |-> 0]

\* value: the value the task is about to send; sent: the values whose send
\* completed; receiving: the caller is blocked in a receive on the channel.
NoTask ==
    [state |-> "none", errCh |-> "nil", value |-> "none", sent |-> <<>>,
     receiving |-> FALSE]

OldContent == <<"# written by somebody else\n">>

Init ==
    /\ fs = [p \in {ResolvConfFile} |-> OldContent]
    /\ call = NoCall
    /\ trace = <<>>
    /\ tasks = <<>>

Idle == call.pc \in {"idle", "done"}

NewCall(entry, networks, errCh, sys, pc) ==
    [NoCall EXCEPT
        !.id = call.id + 1, !.entry = entry, !.networks = networks,
        !.errCh = errCh, !.sys = sys, !.pc = pc,
        !.repeat = /\ call.pc = "done" /\ call.err = "nil"
                   /\ call.entry = entry /\ call.networks = networks
                   /\ call.sys = sys]

Begin(entry, networks, errCh, sys, pc) ==
    /\ Idle
    /\ call.id < MaxCalls
    /\ call' = NewCall(entry, networks, errCh, sys, pc)
    /\ trace' = <<>>
    /\ tasks' = Append(tasks, NoTask)
    /\ UNCHANGED fs

\* The call is over: its locals are gone, its arguments and its result are
\* kept for the record.
Over(err) ==
    [call EXCEPT !.pc = "done", !.err = err, !.modifiedNetworks = <<>>,
                 !.written = FALSE, !.idx = 0]

\* A slip: the error is dropped and the call carries on to the broadcast.
FailedCarriesOn(msg) == [call EXCEPT !.pc = "go"]

\* return bosherr.WrapError(err, ...)
Failed(msg) == Over(msg)

(***************************************************************************)
(* SetupDhcp                                                               *)
(***************************************************************************)
SetupDhcp(networks, errCh, sys) ==
    Begin("SetupDhcp", networks, errCh, sys, "writeDhcpNetworkInterfaces")

\* lines 50-53
SetupDhcpInterfaces ==
    /\ call.pc = "writeDhcpNetworkInterfaces"
    /\ \E env \in OneFailure({"glob", "render", "io"}, {}) :
         LET r == writeDhcpNetworkInterfaces(fs, call.sys, env)
         IN  /\ fs' = r.fs
             /\ trace' = trace \o r.events
             /\ call' = IF r.err # "nil" THEN Failed(r.err)
                        ELSE [call EXCEPT !.pc = "dhclient"]
    /\ UNCHANGED tasks

\* A slip: the restart does not look at what the converge-write reported.
AfterDhclientAlways(written) == "restartNetworkArguments"

\* After the converge-write of dhclient.conf: restart only when it wrote.
AfterDhclient(written) == IF written THEN "restartNetworkArguments" ELSE "go"

\* lines 55-73
SetupDhcpDhclient ==
    /\ call.pc = "dhclient"
    /\ \E env \in OneFailure({"render", "io"}, {}) :
         LET r == writeDhclientConf(fs, call.networks, env)
         IN  /\ fs' = r.fs
             /\ trace' = trace \o r.events
             /\ call' = IF r.err # "nil" THEN Failed(r.err)
                        ELSE [call EXCEPT !.written = r.written,
                                          !.pc = AfterDhclient(r.written)]
    /\ UNCHANGED tasks

\* cmdRunner.RunCommand: the command is recorded, it may fail, the failure
\* is logged and ignored.
\* A slip: a failed command fails the call.
RunCommandFatal(cmd, after) ==
    /\ \E ok \in BOOLEAN :
         /\ trace' = Append(trace, Event("cmd", cmd, FALSE, ok))
         /\ call' = IF ok THEN after ELSE Over("Running command")
    /\ UNCHANGED <<fs, tasks>>

RunCommand(cmd, after) ==
    /\ \E ok \in BOOLEAN : trace' = Append(trace, Event("cmd", cmd, FALSE, ok))
    /\ call' = after
    /\ UNCHANGED <<fs, tasks>>

At(pc) == [call EXCEPT !.pc = pc]

\* A slip: the loopback interface is not excluded.
AllInterfacesArgs == << <<"-a">> >>

NoLoopbackArgs == << <<"-a">>, <<"--no-loopback">> >>

\* lines 274-281
restartNetworkArguments ==
    /\ call.pc = "restartNetworkArguments"
    /\ RunCommand(<< <<"ifup">>, <<"--version">> >>, At("ifdown"))

\* lines 78-81
Ifdown ==
    /\ call.pc = "ifdown"
    /\ RunCommand(<< <<"ifdown">> >> \o NoLoopbackArgs, At("ifup"))

\* lines 83-86
Ifup ==
    /\ call.pc = "ifup"
    /\ RunCommand(<< <<"ifup">> >> \o NoLoopbackArgs, At("go"))

(***************************************************************************)
(* SetupManualNetworking                                                   *)
(***************************************************************************)
SetupManualNetworking(networks, errCh, sys) ==
    Begin("SetupManualNetworking", networks, errCh, sys, "writeNetworkInterfaces")

\* A slip: the restart loop does not look at what the converge-write reported.
AfterInterfacesAlways(written, modifiedNetworks) ==
    IF Len(modifiedNetworks) > 0 THEN "stop" ELSE "go"

\* After writeNetworkInterfaces: the restart loop runs only when it wrote,
\* and has an iteration per resolved network.
AfterInterfaces(written, modifiedNetworks) ==
    IF written /\ Len(modifiedNetworks) > 0 THEN "stop" ELSE "go"

\* lines 124-129
SetupManualInterfaces ==
    /\ call.pc = "writeNetworkInterfaces"
    /\ \E env \in OneFailure({"glob", "render", "io"}, DOMAIN call.sys) :
         LET r == writeNetworkInterfaces(fs, call.networks, call.sys, env)
         IN  /\ fs' = r.fs
             /\ trace' = trace \o r.events
             /\ call' = IF r.err # "nil" THEN Failed(r.err)
                        ELSE [call EXCEPT
                                 !.modifiedNetworks = r.modifiedNetworks,
                                 !.written = r.written,
                                 !.idx = 1,
                                 !.pc = AfterInterfaces(r.written, r.modifiedNetworks)]
    /\ UNCHANGED tasks

ServiceCommand(verb, network) ==
    << <<"service">>, <<"network-interface">>, <<verb>>,
       <<"INTERFACE=">> \o network.Interface >>

\* lines 262-265
ServiceStop ==
    /\ call.pc = "stop"
    /\ RunCommand(ServiceCommand("stop", call.modifiedNetworks[call.idx]), At("start"))

\* After the start of one interface: the next network, or the loop's end.
AfterStart(idx, modifiedNetworks) ==
    IF idx < Len(modifiedNetworks)
    THEN [call EXCEPT !.idx = idx + 1, !.pc = "stop"]
    ELSE [call EXCEPT !.pc = "go"]

\* lines 267-270, and the loop's step
ServiceStart ==
    /\ call.pc = "start"
    /\ RunCommand(ServiceCommand("start", call.modifiedNetworks[call.idx]),
                  AfterStart(call.idx, call.modifiedNetworks))

(***************************************************************************)
(* The background task and the return                                      *)
(***************************************************************************)
Addresses ==
    IF call.entry = "SetupDhcp"
    THEN << [Interface |-> <<"eth0">>, IP |-> <<>>] >>
    ELSE toInterfaceAddresses(call.modifiedNetworks)

\* go func() { ... }()
Go ==
    /\ call.pc = "go"
    /\ tasks' = [tasks EXCEPT ![call.id] =
                    [NoTask EXCEPT !.state = "spawned", !.errCh = call.errCh]]
    /\ trace' = Append(trace, Event("go", Addresses, FALSE, TRUE))
    /\ call' = [call EXCEPT !.pc = "return"]
    /\ UNCHANGED fs

\* A slip: the call waits for its task before it returns.
ReturnWaits(task) == task.state = "done"

\* What the return waits for in the task: nothing.
ReturnReady(task) == TRUE

\* return nil
Return ==
    /\ call.pc = "return"
    /\ ReturnReady(tasks[call.id])
    /\ call' = Over("nil")
    /\ trace' = Append(trace, Event("return", <<>>, FALSE, TRUE))
    /\ UNCHANGED <<fs, tasks>>

\* The events of a task are recorded while its call is the latest one.
Record(c, ev, ok) ==
    trace' = IF c = call.id THEN Append(trace, Event(ev, <<>>, FALSE, ok)) ELSE trace

\* A slip: the broadcast is not held back until the go statement.
BroadcastMACAddressesEarly(c) ==
    /\ tasks[c].state \in {"none", "spawned"}
    /\ c = call.id => call.pc # "done"
    /\ tasks' = [tasks EXCEPT ![c].state = "broadcasting"]
    /\ Record(c, "broadcast", TRUE)
    /\ UNCHANGED <<fs, call>>

\* net.addressBroadcaster.BroadcastMACAddresses(addresses) is entered
BroadcastMACAddresses(c) ==
    /\ tasks[c].state = "spawned"
    /\ tasks' = [tasks EXCEPT ![c].state = "broadcasting"]
    /\ Record(c, "broadcast", TRUE)
    /\ UNCHANGED <<fs, call>>

\* if errCh != nil
AfterBroadcast(errCh) == IF errCh # "nil" THEN "send" ELSE "done"

\* A slip: the task reports what the broadcaster did.
CompletionValueOutcome(outcome) == outcome

\* The value of errCh <- nil
CompletionValue(outcome) == "nil"

\* ... and returns, whatever it did
BroadcastReturns(c) ==
    /\ tasks[c].state = "broadcasting"
    /\ \E outcome \in {"nil", "failed"} :
         /\ tasks' = [tasks EXCEPT ![c].state = AfterBroadcast(tasks[c].errCh),
                                   ![c].value = CompletionValue(outcome)]
         /\ Record(c, "broadcasted", outcome = "nil")
    /\ UNCHANGED <<fs, call>>

\* A slip: a send that does not block (select with a default case).
SendOrSkip(c) ==
    /\ tasks[c].state = "send"
    /\ tasks' = [tasks EXCEPT ![c].state = "done"]
    /\ Record(c, "send", TRUE)
    /\ UNCHANGED <<fs, call>>

\* errCh <- nil on the caller's channel, which has no buffer: the send
\* completes in one step with the caller's receive, and the task stays
\* blocked for as long as the caller does not receive.
Send(c) ==
    /\ tasks[c].state = "send"
    /\ tasks' = [tasks EXCEPT ![c].state = "done",
                              ![c].sent = Append(@, tasks[c].value)]
    /\ Record(c, "send", TRUE)
    /\ UNCHANGED <<fs, call>>

Next ==
    \/ \E networks \in NetworkChoices, errCh \in ErrChChoices, sys \in SysChoices :
         SetupDhcp(networks, errCh, sys)
    \/ SetupDhcpInterfaces
    \/ SetupDhcpDhclient
    \/ restartNetworkArguments
    \/ Ifdown
    \/ Ifup
    \/ \E networks \in NetworkChoices, errCh \in ErrChChoices, sys \in SysChoices :
         SetupManualNetworking(networks, errCh, sys)
    \/ SetupManualInterfaces
    \/ ServiceStop
    \/ ServiceStart
    \/ Go
    \/ Return
    \/ \E c \in 1..Len(tasks) : BroadcastMACAddresses(c)
    \/ \E c \in 1..Len(tasks) : BroadcastReturns(c)
    \/ \E c \in 1..Len(tasks) : Send(c)

Spec == Init /\ [][Next]_vars

(***************************************************************************)
(* The caller's receive made explicit                                      *)
(*                                                                         *)
(* In Spec the send and the caller's receive are one step.  Here the       *)
(* caller of a returned call may or may not start to receive from the      *)
(* channel it supplied, and the send completes only with a caller that     *)
(* receives.  The goroutines that can run are scheduled: the steps of the  *)
(* call and the completion of a send whose receiver waits are fair; the    *)
(* broadcaster's return and the caller's receive are not.                  *)
(***************************************************************************)
LiveNetworks == <<NetB>>

\* The steps of the apply call after its entry.
CallStep ==
    \/ SetupDhcpInterfaces
    \/ SetupDhcpDhclient
    \/ restartNetworkArguments
    \/ Ifdown
    \/ Ifup
    \/ SetupManualInterfaces
    \/ ServiceStop
    \/ ServiceStart
    \/ Go
    \/ Return

\* <-errCh in the caller, once its call has returned.
Receive(c) ==
    /\ tasks[c].state # "none"
    /\ tasks[c].errCh # "nil"
    /\ c = call.id => call.pc = "done"
    /\ ~tasks[c].receiving
    /\ tasks' = [tasks EXCEPT ![c].receiving = TRUE]
    /\ UNCHANGED <<fs, call, trace>>

\* The send meets the caller's receive.
Deliver(c) ==
    /\ tasks[c].receiving
    /\ Send(c)

LiveNext ==
    \/ \E errCh \in ErrChChoices :
         /\ call.id < MaxLiveCalls
         /\ SetupDhcp(LiveNetworks, errCh, SysTwoNics)
    \/ \E errCh \in ErrChChoices :
         /\ call.id < MaxLiveCalls
         /\ SetupManualNetworking(LiveNetworks, errCh, SysTwoNics)
    \/ CallStep
    \/ \E c \in 1..Len(tasks) : BroadcastMACAddresses(c)
    \/ \E c \in 1..Len(tasks) : BroadcastReturns(c)
    \/ \E c \in 1..Len(tasks) : Receive(c)
    \/ \E c \in 1..Len(tasks) : Deliver(c)

LiveSpec ==
    /\ Init
    /\ [][LiveNext]_vars
    /\ WF_vars(CallStep)
    /\ \A c \in 1..MaxLiveCalls : WF_vars(c \in DOMAIN tasks /\ Deliver(c))

(***************************************************************************)
(* The renderers on their own                                              *)
(*                                                                         *)
(* writeResolvConf is called by neither entry point, so the three writers  *)
(* that list DNS servers are also applied one by one, in any order, to a   *)
(* DNS-purpose network whose server list is drawn from DNSLists.           *)
(***************************************************************************)
DNSServerChoices == { <<"d1">>, <<"d2">> }

DNSLists ==
    UNION { [1..n -> DNSServerChoices] : n \in 0..MaxDNS }

RenderInit ==
    /\ fs = [p \in {ResolvConfFile} |-> OldContent]
    /\ \E dns \in DNSLists, sys \in SysChoices :
          call = [NoCall EXCEPT !.entry = "render", !.pc = "render",
                                !.networks = <<[NetA EXCEPT !.DNS = dns]>>,
                                !.sys = sys]
    /\ trace = <<>>
    /\ tasks = <<>>

Rendered(path) == \E i \in DOMAIN trace : trace[i].what = path

WriteResolvConf ==
    /\ call.pc = "render"
    /\ ~Rendered(ResolvConfFile)
    /\ \E env \in OneFailure({"render", "io"}, {}) :
          LET r == writeResolvConf(fs, call.networks, env)
          IN  /\ fs' = r.fs
              /\ trace' = Append(trace,
                                 StepEvent("write", ResolvConfFile, r.err))
    /\ UNCHANGED <<call, tasks>>

WriteDhclientConf ==
    /\ call.pc = "render"
    /\ ~Rendered(DhclientConfigFile)
    /\ \E env \in OneFailure({"render", "io"}, {}) :
          LET r == writeDhclientConf(fs, call.networks, env)
          IN  /\ fs' = r.fs
              /\ trace' = Append(trace,
                                 StepEvent("write", DhclientConfigFile, r.err))
    /\ UNCHANGED <<call, tasks>>

WriteNetworkInterfaces ==
    /\ call.pc = "render"
    /\ ~Rendered(InterfacesFile)
    /\ \E env \in OneFailure({"render", "io"}, {}) :
          LET r == writeNetworkInterfaces(fs, call.networks, call.sys, env)
          IN  /\ fs' = r.fs
              /\ trace' = Append(trace,
                                 StepEvent("write", InterfacesFile, r.err))
    /\ UNCHANGED <<call, tasks>>

RenderNext ==
    \/ WriteResolvConf
    \/ WriteDhclientConf
    \/ WriteNetworkInterfaces

RenderSpec == RenderInit /\ [][RenderNext]_vars

(***************************************************************************)
(* Vocabulary of the properties                                            *)
(***************************************************************************)
Stages == {"detect", "calculate", "render", "converge"}

StageFailed == \E i \in DOMAIN trace : trace[i].ev \in Stages /\ ~trace[i].ok

Happened(ev) == \E i \in DOMAIN trace : trace[i].ev = ev

Commands == SelectSeq(trace, LAMBDA e : e.ev = "cmd")

Changed(path) ==
    \E i \in DOMAIN trace :
        trace[i].ev = "converge" /\ trace[i].what = path /\ trace[i].changed

Ran(cmd) == \E i \in DOMAIN Commands : Commands[i].what = cmd

IfdownCommand == << <<"ifdown">>, <<"-a">>, <<"--no-loopback">> >>
IfupCommand == << <<"ifup">>, <<"-a">>, <<"--no-loopback">> >>

Succeeded == call.pc = "done" /\ call.err = "nil"

CurrentTask == IF call.id = 0 THEN NoTask ELSE tasks[call.id]

(***************************************************************************)
(* C1: when a detection, computation, rendering or converge-write step of  *)
(* an apply call fails, the call is over with a non-nil error, it has run  *)
(* no restart command, it has launched no broadcast task, the broadcaster  *)
(* was not invoked and nothing was sent on its completion channel.         *)
(***************************************************************************)
C1_FailureAborts ==
    /\ StageFailed =>
         /\ call.pc = "done"
         /\ call.err # "nil"
         /\ Commands = <<>>
         /\ ~Happened("go") /\ ~Happened("broadcast") /\ ~Happened("send")
         /\ CurrentTask = NoTask
    /\ \A c \in DOMAIN tasks : tasks[c].state = "none" => tasks[c].sent = <<>>

\* SetupDhcp wrote /etc/network/interfaces and then failed on dhclient.conf.
C1_Witness ==
    /\ call.entry = "SetupDhcp"
    /\ Changed(InterfacesFile)
    /\ \E i \in DOMAIN trace :
         trace[i].ev = "converge" /\ trace[i].what = DhclientConfigFile /\ ~trace[i].ok
    /\ call.err # "nil"

(***************************************************************************)
(* C2: an apply call all of whose detection, computation, rendering and    *)
(* converge-write steps succeeded returns nil, whichever of its restart    *)
(* commands failed.                                                        *)
(***************************************************************************)
C2_RestartFailuresIgnored ==
    /\ (call.pc = "done" /\ ~StageFailed) => call.err = "nil"
    /\ Commands # <<>> => call.err = "nil"

\* SetupManualNetworking returned nil although every stop and start failed.
C2_Witness ==
    /\ call.entry = "SetupManualNetworking"
    /\ Succeeded
    /\ Len(Commands) = 4
    /\ \A i \in DOMAIN Commands : ~Commands[i].ok

(***************************************************************************)
(* C3: the broadcaster of a call is invoked only after the go statement,   *)
(* which comes after every converge-write and every restart command of the *)
(* call: once the broadcast has started the call does no step other than   *)
(* returning.                                                              *)
(***************************************************************************)
C3_BroadcastAfterConvergence ==
    /\ \A i \in DOMAIN trace :
         trace[i].ev = "broadcast" =>
            \A j \in (i + 1)..Len(trace) :
                trace[j].ev \notin Stages \cup {"cmd", "go"}
    /\ CurrentTask.state \notin {"none", "spawned"} =>
         /\ call.pc \in {"return", "done"}
         /\ call.err = "nil"
         /\ Happened("go")

\* A broadcast that started after a write and restart commands.
C3_Witness ==
    /\ \E i, j, k \in DOMAIN trace :
         /\ i < j /\ j < k
         /\ trace[i].ev = "converge" /\ trace[i].changed
         /\ trace[j].ev = "cmd"
         /\ trace[k].ev = "broadcast"
    /\ call.pc = "return"

(***************************************************************************)
(* C4: SetupDhcp runs ifdown and ifup if and only if the converge-write of *)
(* /etc/dhcp/dhclient.conf reported a change, whatever the converge-write  *)
(* of /etc/network/interfaces reported.                                    *)
(***************************************************************************)
C4_DhcpRestartIffDhclientChanged ==
    call.entry = "SetupDhcp" =>
        /\ (Ran(IfdownCommand) \/ Ran(IfupCommand)) => Changed(DhclientConfigFile)
        /\ (call.pc \in {"go", "return", "done"} /\ call.err = "nil") =>
              /\ Ran(IfdownCommand) <=> Changed(DhclientConfigFile)
              /\ Ran(IfupCommand) <=> Changed(DhclientConfigFile)

\* /etc/network/interfaces changed, dhclient.conf did not: no restart.
C4_Witness ==
    /\ call.entry = "SetupDhcp"
    /\ Succeeded
    /\ Changed(InterfacesFile)
    /\ ~Changed(DhclientConfigFile)
    /\ Commands = <<>>

(***************************************************************************)
(* C5: SetupManualNetworking and its restart commands.                     *)
(***************************************************************************)
\* The networks a successful call resolved, in the order of its input.
Resolved ==
    ResolveNetworks(call.networks,
                    detectMacAddresses(call.sys, NoFailure).addresses,
                    <<>>).modifiedNetworks

RECURSIVE StopThenStart(_)
StopThenStart(networks) ==
    IF Len(networks) = 0 THEN <<>>
    ELSE <<ServiceCommand("stop", networks[1]), ServiceCommand("start", networks[1])>>
         \o StopThenStart(Tail(networks))

CommandLines == [i \in DOMAIN Commands |-> Commands[i].what]

PastRestart == call.pc \in {"go", "return", "done"} /\ call.err = "nil"

\* C5 as claimed: SetupManualNetworking runs restart commands if and only if
\* the converge-write of /etc/network/interfaces reported a change, and then
\* a stop and a start per resolved network, in input order.
C5_RestartIffChanged ==
    (call.entry = "SetupManualNetworking" /\ PastRestart) =>
        /\ Commands # <<>> <=> Changed(InterfacesFile)
        /\ Changed(InterfacesFile) => CommandLines = StopThenStart(Resolved)

\* C5 as amended: SetupManualNetworking runs restart commands only if the
\* converge-write of /etc/network/interfaces reported a change; when it
\* reported one, the commands are exactly a stop followed by a start of the
\* interface of each resolved network, in input order and whatever the
\* commands' outcomes (none at all when there is no network); when it
\* reported none, no command is run.
C5_RestartOnlyIfChanged ==
    call.entry = "SetupManualNetworking" =>
        LET expected == IF Changed(InterfacesFile)
                        THEN StopThenStart(Resolved) ELSE <<>>
            lines == CommandLines
        IN  /\ Len(lines) <= Len(expected)
            /\ lines = SubSeq(expected, 1, Len(lines))
            /\ PastRestart => lines = expected

\* Two networks restarted in order, the first stop having failed.
C5_Witness ==
    /\ call.entry = "SetupManualNetworking"
    /\ Succeeded
    /\ Len(Commands) = 4
    /\ ~Commands[1].ok
    /\ Commands[2].what = ServiceCommand("start", Resolved[1])
    /\ Commands[3].what = ServiceCommand("stop", Resolved[2])
    /\ Resolved[1].Interface # Resolved[2].Interface

(***************************************************************************)
(* C6: on the completion channel of a call at most one value is sent, by   *)
(* the call's background task, after BroadcastMACAddresses returned, and   *)
(* it is nil whatever the broadcaster did; a finished task with a channel  *)
(* has sent exactly one; a task without a channel sends nothing; a failed  *)
(* call has no task and a successful call has one.                         *)
(***************************************************************************)
C6_SingleNilCompletion ==
    /\ \A c \in DOMAIN tasks :
         LET t == tasks[c]
         IN  /\ Len(t.sent) <= 1
             /\ \A i \in DOMAIN t.sent : t.sent[i] = "nil"
             /\ t.errCh = "nil" => (t.sent = <<>> /\ t.state # "send")
             /\ t.state \in {"none", "spawned", "broadcasting", "send"} => t.sent = <<>>
             /\ t.state = "send" => t.value = "nil"
             /\ (t.state = "done" /\ t.errCh # "nil") => Len(t.sent) = 1
    /\ (call.pc = "done" /\ call.err # "nil") => CurrentTask = NoTask
    /\ Succeeded => CurrentTask.state # "none"

\* The broadcaster failed and nil was sent all the same.
C6_Witness ==
    /\ \E i, j \in DOMAIN trace :
         /\ i < j
         /\ trace[i].ev = "broadcasted" /\ ~trace[i].ok
         /\ trace[j].ev = "send"
    /\ CurrentTask.sent = <<"nil">>

(***************************************************************************)
(* C7: the return of a successful call and the return of the broadcaster.  *)
(***************************************************************************)
\* C7 as claimed: BroadcastMACAddresses never returns before the call does.
C7_ReturnBeforeBroadcastCompletes ==
    \A i \in DOMAIN trace :
        trace[i].ev = "broadcasted" =>
            \E j \in 1..(i - 1) : trace[j].ev = "return"

\* C7 as amended: a successful call launches its background task and then
\* returns without waiting for it: whatever the task has done so far, the
\* return can be taken, and it comes after the go statement.
C7_ReturnDoesNotWait ==
    /\ call.pc = "return" => ENABLED Return
    /\ \A i \in DOMAIN trace :
         trace[i].ev = "return" => \E j \in 1..(i - 1) : trace[j].ev = "go"

\* The call has returned while its broadcaster is still running.
C7_Witness ==
    /\ Succeeded
    /\ CurrentTask.state = "broadcasting"

(***************************************************************************)
(* C8: a call with the entry point, the networks and the enumeration of   *)
(* the successful call before it reports no change from any converge-write *)
(* and runs no restart command, and when it succeeds it has launched the   *)
(* broadcast task.                                                         *)
(***************************************************************************)
C8_SecondCallIdempotent ==
    call.repeat =>
        /\ \A i \in DOMAIN trace : trace[i].ev = "converge" => ~trace[i].changed
        /\ Commands = <<>>
        /\ Succeeded => (Happened("go") /\ CurrentTask.state # "none")

\* The second of two identical SetupManualNetworking calls, both successful,
\* with its broadcaster running.
C8_Witness ==
    /\ call.repeat
    /\ call.entry = "SetupManualNetworking"
    /\ Len(call.networks) = 2
    /\ Succeeded
    /\ Happened("converge")
    /\ Happened("broadcast")

(***************************************************************************)
(* C9: with an empty DNS server list no rendered file has a DNS directive: *)
(* no prepend directive in dhclient.conf, no dns-nameservers line in       *)
(* /etc/network/interfaces, no nameserver line in the resolver file.       *)
(***************************************************************************)
Atoms(content) == { content[i] : i \in DOMAIN content }

DNSOf(networks) == DefaultNetworkFor(networks, "dns").DNS

C9_NoDNSNoDirective ==
    (Succeeded /\ DNSOf(call.networks) = <<>>) =>
        /\ call.entry = "SetupDhcp" =>
              "\nprepend domain-name-servers " \notin Atoms(fs[DhclientConfigFile])
        /\ call.entry = "SetupManualNetworking" =>
              "dns-nameservers" \notin Atoms(fs[InterfacesFile])
        /\ "nameserver " \notin
              Atoms(ubuntuResolvConfTemplate(dnsConfigArg(DNSOf(call.networks))))

(***************************************************************************)
(* C10: in the file SetupManualNetworking rendered, the block of a network *)
(* has its address, network, netmask and broadcast lines, and has a        *)
(* gateway line if and only if the network declares a gateway.             *)
(***************************************************************************)
BlockStarts(content) == { i \in DOMAIN content : content[i] = "\nauto " }

\* The k-th block: from its "auto" line to the next one, or to the end.
Block(content, k) ==
    LET starts == BlockStarts(content)
        from == CHOOSE i \in starts : Cardinality({ j \in starts : j < i }) = k - 1
        later == { j \in starts : j > from }
        to == IF later = {} THEN Len(content)
              ELSE (CHOOSE j \in later : \A l \in later : j <= l) - 1
    IN  SubSeq(content, from, to)

C10_GatewayLineIffDeclared ==
    (Succeeded /\ call.entry = "SetupManualNetworking") =>
        /\ Cardinality(BlockStarts(fs[InterfacesFile])) = Len(call.networks)
        /\ \A k \in DOMAIN call.networks :
              LET block == Atoms(Block(fs[InterfacesFile], k))
              IN  /\ {" inet static\n    address ", "\n    network ",
                      "\n    netmask ", "\n    broadcast "} \subseteq block
                  /\ "    gateway " \in block <=> call.networks[k].Gateway # <<>>

(***************************************************************************)
(* C11: every rendered file that lists DNS servers lists exactly the       *)
(* servers of the DNS-purpose network, in the input order, each as often   *)
(* as the input has it: the prepend directive of dhclient.conf, the        *)
(* dns-nameservers line of /etc/network/interfaces and the nameserver      *)
(* lines of the resolver file.                                             *)
(***************************************************************************)
\* What follows the first occurrence of a marker.
After(content, marker) ==
    IF marker \notin Atoms(content) THEN <<>>
    ELSE LET i == CHOOSE k \in DOMAIN content :
                    /\ content[k] = marker
                    /\ \A j \in 1..(k - 1) : content[j] # marker
         IN  SubSeq(content, i + 1, Len(content))

Without(content, literals) ==
    SelectSeq(content, LAMBDA a : a \notin literals)

Count(content, atom) ==
    Cardinality({ i \in DOMAIN content : content[i] = atom })

\* The servers of a list, one atom each.
ServerAtoms(servers) == [i \in DOMAIN servers |-> servers[i][1]]

WrittenOk(path) ==
    \E i \in DOMAIN trace : trace[i].what = path /\ trace[i].ok

C11_DNSServersInInputOrder ==
    call.pc = "render" =>
        LET dns == ServerAtoms(call.networks[1].DNS)
        IN  /\ WrittenOk(DhclientConfigFile) =>
                  Without(After(fs[DhclientConfigFile],
                                "\nprepend domain-name-servers "),
                          {", ", ";", "\n"}) = dns
            /\ WrittenOk(InterfacesFile) =>
                  Without(After(fs[InterfacesFile], "dns-nameservers"),
                          {" "}) = dns
            /\ WrittenOk(ResolvConfFile) =>
                  /\ Without(After(fs[ResolvConfFile],
                                   "# Generated by bosh-agent\n"),
                             {"nameserver ", "\n"}) = dns
                  /\ Count(fs[ResolvConfFile], "nameserver ") = Len(dns)

\* All three files are written from a list that repeats a server.
C11_Witness ==
    /\ call.pc = "render"
    /\ call.networks[1].DNS = << <<"d2">>, <<"d2">> >>
    /\ WrittenOk(DhclientConfigFile)
    /\ WrittenOk(InterfacesFile)
    /\ WrittenOk(ResolvConfFile)

(***************************************************************************)
(* C12: in SetupManualNetworking the interface name resolved for a network *)
(* is the name of the enumerated entry whose address file holds the        *)
(* network's MAC (the last such entry), and the empty string when no entry *)
(* holds that MAC; a MAC that matches nothing is no error: the file is     *)
(* rendered and converge-written, and the call succeeds.                   *)
(***************************************************************************)
Holders(sys, mac) == { i \in DOMAIN sys : sys[i].address = mac \o <<"\n">> }

InventoryName(sys, mac) ==
    IF Holders(sys, mac) = {} THEN <<>>
    ELSE LET i == CHOOSE h \in Holders(sys, mac) :
                    \A g \in Holders(sys, mac) : g <= h
         IN  <<sys[i].path[2]>>

\* The interface name of a block: what stands between "auto" and "iface".
BlockInterface(block) ==
    LET i == CHOOSE k \in DOMAIN block : block[k] = "\niface "
    IN  SubSeq(block, 2, i - 1)

WellFormed(networks) ==
    \A k \in DOMAIN networks : IsBits(networks[k].IP) /\ IsBits(networks[k].Netmask)

StageOk(ev) == \E i \in DOMAIN trace : trace[i].ev = ev /\ trace[i].ok

C12_UnmatchedMacResolvesToEmptyName ==
    (call.entry = "SetupManualNetworking" /\ StageOk("detect")
       /\ WellFormed(call.networks)) =>
        /\ Happened("render")
        /\ StageOk("render") => Happened("converge")
        /\ StageOk("converge") =>
              /\ call.pc = "done" => call.err = "nil"
              /\ Cardinality(BlockStarts(fs[InterfacesFile])) = Len(call.networks)
              /\ \A k \in DOMAIN call.networks :
                    BlockInterface(Block(fs[InterfacesFile], k))
                        = InventoryName(call.sys, call.networks[k].Mac)

\* A call with a matched and an unmatched MAC has returned without error.
C12_Witness ==
    /\ Succeeded
    /\ call.entry = "SetupManualNetworking"
    /\ call.networks = <<NetA, NetB>>
    /\ BlockInterface(Block(fs[InterfacesFile], 1)) # <<>>
    /\ BlockInterface(Block(fs[InterfacesFile], 2)) = <<>>

(***************************************************************************)
(* C13: detection of the physical interfaces returns the enumerated        *)
(* entries that have a device descriptor, in the order of the enumeration, *)
(* and the file SetupDhcp renders has one "iface <name> inet dhcp" block   *)
(* for each of them in that order, and none for any other entry.           *)
(***************************************************************************)
WithDevice(sys) == SelectSeq(sys, LAMBDA e : e.device)

PhysicalNames(sys) == [i \in DOMAIN WithDevice(sys) |-> <<WithDevice(sys)[i].path[2]>>]

\* The atoms of a DHCP block, given its interface name.
DhcpBlock(name) ==
    <<"\nauto ">> \o name \o <<"\niface ">> \o name \o <<" inet dhcp\n">>

C13_DhcpBlockPerPhysicalInterface ==
    (call.entry = "SetupDhcp" /\ StageOk("detect")) =>
        /\ trace[1].ev = "detect"
        /\ trace[1].what = PhysicalNames(call.sys)
        /\ (\E i \in DOMAIN trace :
               /\ trace[i].ev = "converge" /\ trace[i].what = InterfacesFile
               /\ trace[i].ok) =>
              /\ Cardinality(BlockStarts(fs[InterfacesFile]))
                    = Len(PhysicalNames(call.sys))
              /\ Count(fs[InterfacesFile], " inet dhcp\n")
                    = Len(PhysicalNames(call.sys))
              /\ \A k \in DOMAIN PhysicalNames(call.sys) :
                    Block(fs[InterfacesFile], k)
                        = DhcpBlock(PhysicalNames(call.sys)[k])

\* The file is written on a host that has an entry without a device
\* descriptor before one with it.
C13_Witness ==
    /\ call.entry = "SetupDhcp"
    /\ call.sys = SysOneNic
    /\ Changed(InterfacesFile)
    /\ Block(fs[InterfacesFile], 1) = DhcpBlock(<<"eth1">>)

(***************************************************************************)
(* C14: detection of the hardware addresses fails as a whole when the      *)
(* enumeration or the address read of one entry fails: it returns an       *)
(* error, the mapping returned with the error has no entry read before the *)
(* failure, and SetupManualNetworking resolves no interface from it: the   *)
(* call ends with the error, the detection being the only thing it did.    *)
(***************************************************************************)
C14_NoPartialInventory ==
    (call.entry = "SetupManualNetworking" /\ Happened("detect")
       /\ ~StageOk("detect")) =>
        /\ DOMAIN trace[1].what = {}
        /\ Len(trace) = 1
        /\ call.pc = "done"
        /\ call.err = "Detecting mac addresses"
        /\ call.modifiedNetworks = <<>>

(***************************************************************************)
(* C15: no rollback. When SetupDhcp has converge-written                   *)
(* /etc/network/interfaces and then fails to render or to converge-write   *)
(* dhclient.conf, the call returns an error and /etc/network/interfaces    *)
(* keeps the DHCP content the call wrote.                                  *)
(***************************************************************************)
ConvergedOk(path) ==
    \E i \in DOMAIN trace :
        trace[i].ev = "converge" /\ trace[i].what = path /\ trace[i].ok

DhclientFailed ==
    \E i \in DOMAIN trace :
        /\ trace[i].ev \in {"render", "converge"}
        /\ trace[i].what = DhclientConfigFile
        /\ ~trace[i].ok

C15_NoRollback ==
    (call.entry = "SetupDhcp" /\ ConvergedOk(InterfacesFile) /\ DhclientFailed) =>
        /\ call.pc = "done"
        /\ call.err # "nil"
        /\ InterfacesFile \in DOMAIN fs
        /\ fs[InterfacesFile]
              = ubuntuDhcpNetworkInterfacesTemplate(PhysicalNames(call.sys))

\* The second call replaces the static file and then fails to render
\* dhclient.conf.
C15_Witness ==
    /\ call.entry = "SetupDhcp"
    /\ call.id = 2
    /\ Changed(InterfacesFile)
    /\ \E i \in DOMAIN trace :
          /\ trace[i].ev = "render" /\ trace[i].what = DhclientConfigFile
          /\ ~trace[i].ok
    /\ call.pc = "done"

(***************************************************************************)
(* C16: whatever calls were made, /etc/network/interfaces is of one mode   *)
(* (besides the loopback stanza it has "inet dhcp" stanzas only or         *)
(* "inet static" stanzas only) and holds the content rendered by the last  *)
(* call that converge-wrote it.                                            *)
(***************************************************************************)
\* The content of the file, none when the file does not exist.
InterfacesContent ==
    IF InterfacesFile \in DOMAIN fs THEN fs[InterfacesFile] ELSE <<>>

OneMode ==
    ~ /\ " inet dhcp\n" \in Atoms(InterfacesContent)
      /\ " inet static\n    address " \in Atoms(InterfacesContent)

\* What the call in progress renders for /etc/network/interfaces.
RenderedInterfaces ==
    IF call.entry = "SetupDhcp"
    THEN ubuntuDhcpNetworkInterfacesTemplate(PhysicalNames(call.sys))
    ELSE networkInterfacesTemplate(
            networkInterfaceConfigArg(Resolved,
                                      DefaultNetworkFor(call.networks, "dns")))

ReachedConverge(path) ==
    \E i \in DOMAIN trace : trace[i].ev = "converge" /\ trace[i].what = path

\* C16 as claimed: the file holds what the last call that reached its
\* converge-write of the file rendered, whether that write succeeded or not.
C16_ContentOfLastCallThatReachedWrite ==
    /\ OneMode
    /\ (call.entry \in {"SetupDhcp", "SetupManualNetworking"}
          /\ InterfacesFile \in DOMAIN fs
          /\ ReachedConverge(InterfacesFile)) =>
           InterfacesContent = RenderedInterfaces

\* C16 as amended: the file is of one mode and holds what the last call
\* whose converge-write of the file succeeded rendered: a call whose
\* converge-write succeeded leaves its rendering in the file, and no other
\* step changes the file.
C16_ContentOfLastCallThatWrote ==
    /\ [](/\ OneMode
          /\ (call.entry \in {"SetupDhcp", "SetupManualNetworking"}
                /\ ConvergedOk(InterfacesFile)) =>
                 InterfacesContent = RenderedInterfaces)
    /\ [][InterfacesContent' # InterfacesContent =>
             /\ ~ConvergedOk(InterfacesFile)
             /\ ConvergedOk(InterfacesFile)']_vars

\* A manual call replaces the DHCP file of an earlier call by a static one.
C16_Witness ==
    /\ call.entry = "SetupManualNetworking"
    /\ DhclientConfigFile \in DOMAIN fs
    /\ Changed(InterfacesFile)
    /\ " inet static\n    address " \in Atoms(InterfacesContent)
    /\ InterfacesContent = RenderedInterfaces

(***************************************************************************)
(* C17: when the detection of the hardware addresses fails, or the         *)
(* network and broadcast computation fails for a network at any position   *)
(* of the input, SetupManualNetworking returns an error and leaves every   *)
(* file as it was, even when networks before the failing one were          *)
(* resolved.                                                               *)
(***************************************************************************)
C17_FailureBeforeWriteChangesNoFile ==
    [][(/\ call.pc = "writeNetworkInterfaces"
        /\ call' # call
        /\ \/ ~WellFormed(call.networks)
           \/ ~StageOk("detect")') =>
          /\ call'.pc = "done"
          /\ call'.err \in {"Detecting mac addresses",
                            "Calculating network and broadcast"}
          /\ fs' = fs]_vars

\* The computation fails for the second network, the first one having been
\* resolved, and the file of an earlier call is still there.
C17_Witness ==
    /\ call.entry = "SetupManualNetworking"
    /\ call.networks = <<NetB, NetBad>>
    /\ call.pc = "done"
    /\ call.err = "Calculating network and broadcast"
    /\ StageOk("detect")
    /\ ~ReachedConverge(InterfacesFile)
    /\ InterfacesFile \in DOMAIN fs

(***************************************************************************)
(* C18: when SetupDhcp restarts networking it runs "ifup --version", then  *)
(* "ifdown -a --no-loopback", then "ifup -a --no-loopback", each of them   *)
(* whatever the earlier ones returned; when dhclient.conf did not change   *)
(* it runs none of the three.                                              *)
(***************************************************************************)
DhcpRestartCommands ==
    << << <<"ifup">>, <<"--version">> >>,
       << <<"ifdown">>, <<"-a">>, <<"--no-loopback">> >>,
       << <<"ifup">>, <<"-a">>, <<"--no-loopback">> >> >>

C18_DhcpRestartCommandsInOrder ==
    call.entry = "SetupDhcp" =>
        LET expected == IF Changed(DhclientConfigFile)
                        THEN DhcpRestartCommands ELSE <<>>
        IN  /\ CommandLines = SubSeq(DhcpRestartCommands, 1, Len(Commands))
            /\ Len(Commands) <= Len(expected)
            /\ call.pc = "restartNetworkArguments" => Len(Commands) = 0
            /\ call.pc = "ifdown" => Len(Commands) = 1
            /\ call.pc = "ifup" => Len(Commands) = 2
            /\ PastRestart => CommandLines = expected

\* The third command has run after the first two failed.
C18_Witness ==
    /\ call.entry = "SetupDhcp"
    /\ CommandLines = DhcpRestartCommands
    /\ ~Commands[1].ok
    /\ ~Commands[2].ok
    /\ Commands[3].ok
    /\ call.pc = "go"

(***************************************************************************)
(* C19: frame of the entry points. A step of SetupDhcp changes no file but *)
(* /etc/network/interfaces and /etc/dhcp/dhclient.conf, a step of          *)
(* SetupManualNetworking none but /etc/network/interfaces (so it never     *)
(* changes dhclient.conf), and whatever calls were made /etc/resolv.conf   *)
(* has its initial content.                                                *)
(***************************************************************************)
\* The files a step creates, removes or rewrites.
FilesChanged ==
    { p \in DOMAIN fs \cup DOMAIN fs' :
        \/ p \notin DOMAIN fs
        \/ p \notin DOMAIN fs'
        \/ fs'[p] # fs[p] }

Frame(entry) ==
    IF entry = "SetupDhcp" THEN {InterfacesFile, DhclientConfigFile}
    ELSE IF entry = "SetupManualNetworking" THEN {InterfacesFile}
    ELSE {}

C19_EntryPointFrame ==
    /\ [](/\ ResolvConfFile \in DOMAIN fs
          /\ fs[ResolvConfFile] = OldContent)
    /\ [][FilesChanged \subseteq Frame(call'.entry)]_vars

\* A manual call has rewritten /etc/network/interfaces next to the
\* dhclient.conf of an earlier call.
C19_Witness ==
    /\ call.entry = "SetupManualNetworking"
    /\ Succeeded
    /\ Changed(InterfacesFile)
    /\ DhclientConfigFile \in DOMAIN fs
    /\ fs[ResolvConfFile] = OldContent

(***************************************************************************)
(* C20: a call that has reached its go statement returns, without error,   *)
(* whether or not the broadcaster ever returns and whether or not anybody  *)
(* receives from the channel; once BroadcastMACAddresses has returned and  *)
(* the caller receives from the channel it supplied, the nil completion    *)
(* signal is delivered; and a task whose channel has no receiver stays     *)
(* blocked on its send.                                                    *)
(***************************************************************************)
Blocked(c) == c \in DOMAIN tasks /\ tasks[c].state = "send"

Delivered(c) ==
    /\ c \in DOMAIN tasks
    /\ tasks[c].state = "done"
    /\ tasks[c].sent = <<"nil">>

C20_ReturnsAndSignals ==
    /\ call.pc \in {"go", "return"} ~> Succeeded
    /\ \A c \in 1..MaxLiveCalls :
          (Blocked(c) /\ tasks[c].receiving) ~> Delivered(c)
    /\ [][\A c \in DOMAIN tasks :
             (tasks[c].state = "send" /\ ~tasks[c].receiving) =>
                 tasks'[c].state = "send"]_vars

\* The caller has received the nil completion signal of a call that
\* returned before its task had entered the broadcaster.
C20_Witness ==
    /\ Succeeded
    /\ Delivered(call.id)
    /\ tasks[call.id].receiving
    /\ \E i, j \in DOMAIN trace :
          /\ i < j
          /\ trace[i].ev = "return"
          /\ trace[j].ev = "broadcast"

====
